---- MODULE Spec2Model ----
(***************************************************************************)
(* The sales dashboard of streamlit_app.py as a state machine.  One run of *)
(* the script is a sequence of steps: cargar_datos (cached), the sidebar    *)
(* filters (date range, product line, month), the download export, the key *)
(* indicators and the tabs.  A widget interaction re-runs the script.       *)
(*                                                                         *)
(* Text (cells of data.csv and of the exported CSV) is a sequence of       *)
(* one-character strings.  A timestamp of the Date column is the number of *)
(* days since 1970-01-01 (all Date values are at midnight); a timestamp of *)
(* the Time column is the minute of the day 1900-01-01.  Money and ratings *)
(* are integers (fixed-point units).  A float aggregate is an exact        *)
(* rational <<numerator, denominator>>, and NaN is the empty sequence.     *)
(***************************************************************************)
EXTENDS Integers, Sequences, FiniteSets, TLC

\* Largest number of data rows of data.csv the model explores.
MaxRows == 3

----------------------------------------------------------------------------
(* Text helpers *)

DigitVal == [c \in {"0", "1", "2", "3", "4", "5", "6", "7", "8", "9"} |->
               CASE c = "0" -> 0 [] c = "1" -> 1 [] c = "2" -> 2 [] c = "3" -> 3
                 [] c = "4" -> 4 [] c = "5" -> 5 [] c = "6" -> 6 [] c = "7" -> 7
                 [] c = "8" -> 8 [] c = "9" -> 9]

DigitChar == <<"0", "1", "2", "3", "4", "5", "6", "7", "8", "9">>

IsDigits(s) == \A i \in 1..Len(s) : s[i] \in DOMAIN DigitVal

RECURSIVE NumVal(_)
NumVal(s) == IF s = <<>> THEN 0
             ELSE 10 * NumVal(SubSeq(s, 1, Len(s) - 1)) + DigitVal[s[Len(s)]]

RECURSIVE NumText(_)
NumText(n) == IF n < 10 THEN <<DigitChar[n + 1]>>
              ELSE NumText(n \div 10) \o <<DigitChar[(n % 10) + 1]>>

\* f"{n:02d}"
Pad2(n) == IF n < 10 THEN <<"0">> \o NumText(n) ELSE NumText(n)

\* f"{n:04d}"
Pad4(n) == IF n < 10 THEN <<"0", "0", "0">> \o NumText(n)
           ELSE IF n < 100 THEN <<"0", "0">> \o NumText(n)
           ELSE IF n < 1000 THEN <<"0">> \o NumText(n)
           ELSE NumText(n)

\* The fields of s between the occurrences of the separator sep.
RECURSIVE SplitOn(_, _)
SplitOn(s, sep) ==
    IF \A i \in 1..Len(s) : s[i] # sep THEN <<s>>
    ELSE LET k == CHOOSE i \in 1..Len(s) :
                    s[i] = sep /\ \A j \in 1..(i - 1) : s[j] # sep
         IN <<SubSeq(s, 1, k - 1)>> \o SplitOn(SubSeq(s, k + 1, Len(s)), sep)

----------------------------------------------------------------------------
(* Calendar arithmetic of datetime64 *)

NaT == <<>>
NaN == <<>>

IsLeap(y) == (y % 4 = 0 /\ y % 100 # 0) \/ y % 400 = 0

DaysInMonth(y, m) == IF m = 2 THEN (IF IsLeap(y) THEN 29 ELSE 28)
                     ELSE IF m \in {4, 6, 9, 11} THEN 30 ELSE 31

\* Days from 1970-01-01 to the civil date y-m-d.
DaysFromCivil(y, m, d) ==
    LET yy  == IF m <= 2 THEN y - 1 ELSE y
        era == yy \div 400
        yoe == yy - era * 400
        mp  == IF m > 2 THEN m - 3 ELSE m + 9
        doy == (153 * mp + 2) \div 5 + d - 1
        doe == yoe * 365 + yoe \div 4 - yoe \div 100 + doy
    IN era * 146097 + doe - 719468

\* The civil date [y, m, d] of a day number.
CivilFromDays(z) ==
    LET zz  == z + 719468
        era == zz \div 146097
        doe == zz - era * 146097
        yoe == (doe - doe \div 1460 + doe \div 36524 - doe \div 146096) \div 365
        doy == doe - (365 * yoe + yoe \div 4 - yoe \div 100)
        mp  == (5 * doy + 2) \div 153
        d   == doy - (153 * mp + 2) \div 5 + 1
        m   == IF mp < 10 THEN mp + 3 ELSE mp - 9
        y   == yoe + era * 400 + (IF m <= 2 THEN 1 ELSE 0)
    IN [y |-> y, m |-> m, d |-> d]

WeekOrder == <<"Monday", "Tuesday", "Wednesday", "Thursday", "Friday", "Saturday", "Sunday">>

MonthNames == <<"January", "February", "March", "April", "May", "June", "July",
                "August", "September", "October", "November", "December">>

\* Series.dt.day_name(): 1970-01-01 was a Thursday.
day_name(z) == WeekOrder[((z + 3) % 7) + 1]

\* Series.dt.month_name()
month_name(z) == MonthNames[CivilFromDays(z).m]

\* Series.dt.hour of a Time timestamp (minute of the day).
hour(t) == t \div 60

----------------------------------------------------------------------------
(* cargar_datos: parsing, derived columns, dropna *)

\* The day numbers a datetime64[ns] timestamp at midnight can hold
\* (1677-09-22 .. 2262-04-11).
InBounds(z) == -106751 <= z /\ z <= 106751

\* %m : 1[0-2]|0[1-9]|[1-9]
MatchMonth(f) == Len(f) \in 1..2 /\ IsDigits(f) /\ NumVal(f) \in 1..12

\* %d : 3[0-1]|[1-2]\d|0[1-9]|[1-9]| [1-9]
MatchDay(f) == \/ Len(f) \in 1..2 /\ IsDigits(f) /\ NumVal(f) \in 1..31
               \/ Len(f) = 2 /\ f[1] = " " /\ IsDigits(<<f[2]>>) /\ f[2] # "0"

DayVal(f) == IF f[1] = " " THEN NumVal(<<f[2]>>) ELSE NumVal(f)

\* %Y : \d\d\d\d
MatchYear(f) == Len(f) = 4 /\ IsDigits(f)

\* %H : 2[0-3]|[0-1]\d|\d
MatchHour(f) == Len(f) \in 1..2 /\ IsDigits(f) /\ NumVal(f) \in 0..23

\* %M : [0-5]\d|\d
MatchMinute(f) == Len(f) \in 1..2 /\ IsDigits(f) /\ NumVal(f) \in 0..59

\* pd.to_datetime(cell, format='%m/%d/%Y', errors='coerce'): <<day number>>, or NaT.
ParseDate(cell) ==
    LET f == SplitOn(cell, "/") IN
    IF Len(f) # 3 THEN NaT
    ELSE IF ~(MatchMonth(f[1]) /\ MatchDay(f[2]) /\ MatchYear(f[3])) THEN NaT
    ELSE LET y == NumVal(f[3])
             m == NumVal(f[1])
             d == DayVal(f[2])
         IN IF y < 1 \/ d > DaysInMonth(y, m) THEN NaT
            ELSE IF ~InBounds(DaysFromCivil(y, m, d)) THEN NaT
            ELSE <<DaysFromCivil(y, m, d)>>

\* pd.to_datetime(cell, format='%H:%M', errors='coerce'): <<minute of 1900-01-01>>, or NaT.
ParseTime(cell) ==
    LET f == SplitOn(cell, ":") IN
    IF Len(f) # 2 THEN NaT
    ELSE IF ~(MatchHour(f[1]) /\ MatchMinute(f[2])) THEN NaT
    ELSE <<NumVal(f[1]) * 60 + NumVal(f[2])>>

\* The cell texts read_csv takes for a missing value (its default na_values).
NaValues ==
    { "", "#N/A", "#N/A N/A", "#NA", "-1.#IND", "-1.#QNAN", "-NaN", "-nan",
      "1.#IND", "1.#QNAN", "<NA>", "N/A", "NA", "NULL", "NaN", "None",
      "n/a", "nan", "null" }

\* The same texts, as the character sequences of a numeric cell.
NaCells ==
    { <<>>, <<"#", "N", "/", "A">>,
      <<"#", "N", "/", "A", " ", "N", "/", "A">>, <<"#", "N", "A">>,
      <<"-", "1", ".", "#", "I", "N", "D">>,
      <<"-", "1", ".", "#", "Q", "N", "A", "N">>, <<"-", "N", "a", "N">>,
      <<"-", "n", "a", "n">>, <<"1", ".", "#", "I", "N", "D">>,
      <<"1", ".", "#", "Q", "N", "A", "N">>, <<"<", "N", "A", ">">>,
      <<"N", "/", "A">>, <<"N", "A">>, <<"N", "U", "L", "L">>,
      <<"N", "a", "N">>, <<"N", "o", "n", "e">>, <<"n", "/", "a">>,
      <<"n", "a", "n">>, <<"n", "u", "l", "l">> }

\* read_csv on a numeric cell: an empty cell, or one holding a text of
\* na_values, is NaN.  The other cells are integer text, or integer text
\* followed by ".0" (a float64 column written by to_csv).
ParseNumber(cell) == IF cell \in NaCells THEN NaN
                     ELSE <<NumVal(SplitOn(cell, ".")[1])>>

\* read_csv on a text cell: an empty cell, or one holding a text of na_values,
\* is NaN.
ParseText(cell) == IF cell \in NaValues THEN NaN ELSE <<cell>>

\* Lines 20-26: the frame before dropna; every cell is <<value>> or missing (<<>>).
\* idx is the row's index label (RangeIndex of read_csv).
ParseRow(r, i) ==
    LET date == ParseDate(r.Date)
        time == ParseTime(r.Time)
    IN [idx           |-> <<i - 1>>,
        Date          |-> date,
        Time          |-> time,
        Product_line  |-> ParseText(r.Product_line),
        Customer_type |-> ParseText(r.Customer_type),
        Total         |-> ParseNumber(r.Total),
        Rating        |-> ParseNumber(r.Rating),
        Day           |-> IF date = NaT THEN NaN ELSE <<day_name(date[1])>>,
        Month         |-> IF date = NaT THEN NaN ELSE <<month_name(date[1])>>,
        Hour          |-> IF time = NaT THEN NaN ELSE <<hour(time[1])>>]

ParseFrame(csv) == [i \in 1..Len(csv) |-> ParseRow(csv[i], i)]

Columns == {"idx", "Date", "Time", "Product_line", "Customer_type", "Total",
            "Rating", "Day", "Month", "Hour"}

\* A row dropna keeps: no cell is missing.
Complete(row) == \A c \in Columns : row[c] # <<>>

Value(row) == [c \in Columns |-> row[c][1]]

RECURSIVE Select(_, _)
\* The rows of a frame at which the boolean mask is true, in frame order (df[mask]).
Select(frame, mask) ==
    IF frame = <<>> THEN <<>>
    ELSE LET rest == Select(Tail(frame), Tail(mask))
         IN IF Head(mask) THEN <<Head(frame)>> \o rest ELSE rest

\* Variant: missing cells filled with 0 instead of their rows being dropped.
DropnaRelleno(frame) ==
    [i \in 1..Len(frame) |->
       [c \in Columns |-> IF frame[i][c] = <<>> THEN 0 ELSE frame[i][c][1]]]

\* Line 27: df.dropna()
Dropna(frame) ==
    LET kept == Select(frame, [i \in 1..Len(frame) |-> Complete(frame[i])])
    IN [i \in 1..Len(kept) |-> Value(kept[i])]

\* Lines 19-27
cargar_datos(csv) == Dropna(ParseFrame(csv))

\* The dtype read_csv gives a numeric column: object when the file has no data
\* row, float64 when a cell is missing or written with a decimal point, int64
\* otherwise.
NumberDtype(cells) ==
    IF cells = <<>> THEN "object"
    ELSE IF \E i \in 1..Len(cells) :
               \/ ParseNumber(cells[i]) = NaN
               \/ \E k \in 1..Len(cells[i]) : cells[i][k] = "."
         THEN "float64"
    ELSE "int64"

\* The dtypes of the numeric columns; .dt.hour is int32 unless a Time is NaT,
\* which makes it float64.  dropna leaves the dtypes as they are.
Dtypes(csv) ==
    [Total  |-> NumberDtype([i \in 1..Len(csv) |-> csv[i].Total]),
     Rating |-> NumberDtype([i \in 1..Len(csv) |-> csv[i].Rating]),
     Hour   |-> IF \E i \in 1..Len(csv) : ParseTime(csv[i].Time) = NaT
                THEN "float64" ELSE "int32"]

----------------------------------------------------------------------------
(* Sidebar filters *)

Col(frame, c) == [i \in 1..Len(frame) |-> frame[i][c]]

Range(f) == {f[i] : i \in DOMAIN f}

\* Series.unique(): the distinct values in order of first appearance.
RECURSIVE unique(_)
unique(series) ==
    IF series = <<>> THEN <<>>
    ELSE LET init == unique(SubSeq(series, 1, Len(series) - 1))
             last == series[Len(series)]
         IN IF last \in Range(init) THEN init ELSE Append(init, last)

MinOf(S) == CHOOSE x \in S : \A y \in S : x <= y

MaxOf(S) == CHOOSE x \in S : \A y \in S : y <= x

RECURSIVE SortAsc(_)
\* The elements of a set of integers in ascending order (the sorted group keys).
SortAsc(S) == IF S = {} THEN <<>>
              ELSE <<MinOf(S)>> \o SortAsc(S \ {MinOf(S)})

\* Variant: the rows of the range re-ordered by date (sort_values('Date')).
FiltrarFechaOrdenada(frame, inicio, fin) ==
    LET kept == Select(frame, [i \in 1..Len(frame) |->
                                 frame[i].Date >= inicio /\ frame[i].Date <= fin])
        keys == SortAsc(Range(Col(kept, "Date")))
        RECURSIVE Cat(_)
        Cat(k) == IF k > Len(keys) THEN <<>>
                  ELSE Select(kept, [i \in 1..Len(kept) |-> kept[i].Date = keys[k]])
                         \o Cat(k + 1)
    IN Cat(1)

\* Variant: the upper bound of the range excluded.
FiltrarFechaExclusiva(frame, inicio, fin) ==
    Select(frame, [i \in 1..Len(frame) |->
                     frame[i].Date >= inicio /\ frame[i].Date < fin])

\* Line 40: (df['Date'] >= inicio) & (df['Date'] <= fin)
FiltrarFecha(frame, inicio, fin) ==
    Select(frame, [i \in 1..Len(frame) |->
                     frame[i].Date >= inicio /\ frame[i].Date <= fin])

\* Series.isin(values)
isin(frame, c, values) == [i \in 1..Len(frame) |-> frame[i][c] \in values]

\* Variant: the selection applied even when it is empty.
FiltrarLineaSinGuarda(frame, ops) == Select(frame, isin(frame, "Product_line", ops))

\* Lines 45-46: if opciones: df_filtrado[df_filtrado['Product line'].isin(opciones)]
FiltrarLinea(frame, ops) ==
    IF ops # {} THEN Select(frame, isin(frame, "Product_line", ops)) ELSE frame

MesesLista == <<"January", "February", "March">>

\* Variant: the three listed months offered whatever the frame holds.
MesesTodos(frame) == MesesLista

\* Line 49: [m for m in ['January', 'February', 'March'] if m in Month.unique()]
MesesOrdenados(frame) ==
    SelectSeq(MesesLista, LAMBDA m : m \in Range(unique(Col(frame, "Month"))))

\* Variant: the selection applied even when it is empty.
FiltrarMesSinGuarda(frame, meses) == Select(frame, isin(frame, "Month", meses))

\* Lines 51-52: if meses_seleccionados: df_filtrado[df_filtrado['Month'].isin(...)]
FiltrarMes(frame, meses) ==
    IF meses # {} THEN Select(frame, isin(frame, "Month", meses)) ELSE frame

\* Lines 40-52: df_filtrado as a function of the loaded frame and the selection.
Aplicar(frame, inicio, fin, ops, meses) ==
    FiltrarMes(FiltrarLinea(FiltrarFecha(frame, inicio, fin), ops), meses)

----------------------------------------------------------------------------
(* Download export: DataFrame.to_csv(index=False) *)

\* A datetime64 column whose values are all at midnight is written %Y-%m-%d,
\* any other as %Y-%m-%d %H:%M:%S.
DateText(z) == LET c == CivilFromDays(z)
               IN Pad4(c.y) \o <<"-">> \o Pad2(c.m) \o <<"-">> \o Pad2(c.d)

\* The Time column: timestamps of 1900-01-01.
TimeText(t, datesOnly) ==
    IF datesOnly THEN <<"1", "9", "0", "0", "-", "0", "1", "-", "0", "1">>
    ELSE <<"1", "9", "0", "0", "-", "0", "1", "-", "0", "1", " ">>
           \o Pad2(t \div 60) \o <<":">> \o Pad2(t % 60) \o <<":", "0", "0">>

\* A whole number of an integer column, or of a float64 column.
NumberText(n, dtype) == IF dtype = "float64" THEN NumText(n) \o <<".", "0">>
                        ELSE NumText(n)

\* Line 57: one text row per row of the frame, the index left out.
to_csv(frame, dtype) ==
    LET datesOnly == \A i \in 1..Len(frame) : frame[i].Time = 0
    IN [i \in 1..Len(frame) |->
          [Date          |-> DateText(frame[i].Date),
           Time          |-> TimeText(frame[i].Time, datesOnly),
           Product_line  |-> frame[i].Product_line,
           Customer_type |-> frame[i].Customer_type,
           Total         |-> NumberText(frame[i].Total, dtype.Total),
           Rating        |-> NumberText(frame[i].Rating, dtype.Rating),
           Day           |-> frame[i].Day,
           Month         |-> frame[i].Month,
           Hour          |-> NumberText(frame[i].Hour, dtype.Hour)]]

----------------------------------------------------------------------------
(* Aggregates *)

RECURSIVE Sum(_)
\* Series.sum(): 0 on an empty series.
Sum(series) == IF series = <<>> THEN 0 ELSE Head(series) + Sum(Tail(series))

RECURSIVE Gcd(_, _)
Gcd(a, b) == IF b = 0 THEN a ELSE Gcd(b, a % b)

\* The rational n/d (n >= 0, d > 0) in lowest terms.
Rat(n, d) == LET g == Gcd(n, d) IN <<n \div g, d \div g>>

\* Variant: the mean of an empty series taken to be 0.
MeanCero(series) == IF series = <<>> THEN <<0, 1>>
                    ELSE Rat(Sum(series), Len(series))

\* Series.mean(): NaN on an empty series.
Mean(series) == IF series = <<>> THEN NaN ELSE Rat(Sum(series), Len(series))

RECURSIVE Sorted(_)
\* Series.sort_values()
Sorted(series) ==
    IF series = <<>> THEN <<>>
    ELSE LET k == CHOOSE i \in 1..Len(series) :
                    \A j \in 1..Len(series) : series[i] <= series[j]
         IN <<series[k]>> \o
            Sorted([i \in 1..(Len(series) - 1) |->
                      IF i < k THEN series[i] ELSE series[i + 1]])

\* Series.quantile(k/4), linear interpolation: NaN on an empty series.
Quantile(series, k) ==
    IF series = <<>> THEN NaN
    ELSE LET a  == Sorted(series)
             lo == ((Len(a) - 1) * k) \div 4
             f  == ((Len(a) - 1) * k) % 4
             hi == IF f = 0 THEN lo ELSE lo + 1
         IN Rat(4 * a[lo + 1] + f * (a[hi + 1] - a[lo + 1]), 4)

\* The Total values of the rows of a group (rows whose column c is key).
Group(frame, c, key) ==
    Col(Select(frame, [i \in 1..Len(frame) |-> frame[i][c] = key]), "Total")

\* Line 87: groupby('Date')['Total'].sum().reset_index(), the groups in key order.
VentasDiarias(frame) ==
    LET keys == SortAsc(Range(Col(frame, "Date")))
    IN [i \in 1..Len(keys) |->
          [Date |-> keys[i], Total |-> Sum(Group(frame, "Date", keys[i]))]]

\* Variant: the mean taken over the records instead of over the dates.
PromedioPorRegistro(frame) == Mean(Col(frame, "Total"))

\* Line 71: groupby('Date')['Total'].sum().mean()
PromedioDiario(frame) == Mean(Col(VentasDiarias(frame), "Total"))

\* The weekday names in the order groupby sorts its keys (alphabetical).
DiasAlfabetico == <<"Friday", "Monday", "Saturday", "Sunday", "Thursday",
                    "Tuesday", "Wednesday">>

\* groupby('Day')['Total'].mean(): one entry per weekday of the frame.
MediaPorDia(frame) ==
    LET keys == SelectSeq(DiasAlfabetico, LAMBDA d : d \in Range(Col(frame, "Day")))
    IN [i \in 1..Len(keys) |->
          [Day |-> keys[i], Total |-> Mean(Group(frame, "Day", keys[i]))]]

\* Variant: absent labels filled with 0 (reindex(labels, fill_value=0)).
reindexCero(series, labels) ==
    [i \in 1..Len(labels) |->
       [Day   |-> labels[i],
        Total |-> IF \E j \in 1..Len(series) : series[j].Day = labels[i]
                  THEN series[CHOOSE j \in 1..Len(series) :
                                series[j].Day = labels[i]].Total
                  ELSE <<0, 1>>]]

\* Series.reindex(labels): the value at each label, NaN where the label is absent.
reindex(series, labels) ==
    [i \in 1..Len(labels) |->
       [Day   |-> labels[i],
        Total |-> IF \E j \in 1..Len(series) : series[j].Day = labels[i]
                  THEN series[CHOOSE j \in 1..Len(series) :
                                series[j].Day = labels[i]].Total
                  ELSE NaN]]

\* Line 94
VentasDia(frame) == reindex(MediaPorDia(frame), WeekOrder)

\* Line 101: groupby('Date').size().reset_index(name='Cantidad')
Transacciones(frame) ==
    LET keys == SortAsc(Range(Col(frame, "Date")))
    IN [i \in 1..Len(keys) |->
          [Date |-> keys[i], Cantidad |-> Len(Group(frame, "Date", keys[i]))]]

Bins == 12

\* np.histogram(data, bins=12)[0]: the count of each of the 12 equal-width bins
\* over [min, max] ([min - 0.5, max + 0.5] when min = max, [0, 1] when empty).
Histogram(series) ==
    LET lo == MinOf(Range(series))
        hi == MaxOf(Range(series))
        bin(x) == IF lo = hi THEN Bins \div 2
                  ELSE IF x = hi THEN Bins - 1
                  ELSE ((x - lo) * Bins) \div (hi - lo)
    IN [b \in 1..Bins |->
          IF series = <<>> THEN 0
          ELSE Cardinality({i \in 1..Len(series) : bin(series[i]) = b - 1})]

\* Lines 116-143: the statistics of the rating histogram.
Opiniones(frame) ==
    LET data == Col(frame, "Rating")
    IN [mean      |-> Mean(data),
        median    |-> Quantile(data, 2),
        q1        |-> Quantile(data, 1),
        q3        |-> Quantile(data, 3),
        max_count |-> MaxOf(Range(Histogram(data))),
        x_stats   |-> IF data = <<>> THEN NaN
                      ELSE Rat(10 * MaxOf(Range(data)) + 3, 10)]

\* Lines 179-183: the annotation of each customer type of the box plot.
GastoPorTipo(frame) ==
    LET tipos == unique(Col(frame, "Customer_type"))
    IN [i \in 1..Len(tipos) |->
          LET grupo == Group(frame, "Customer_type", tipos[i])
          IN [tipo    |-> tipos[i],
              mean    |-> Mean(grupo),
              median  |-> Quantile(grupo, 2),
              q1      |-> Quantile(grupo, 1),
              q3      |-> Quantile(grupo, 3),
              y       |-> Rat(MaxOf(Range(grupo)), 2)]]

----------------------------------------------------------------------------
(* The contents of data.csv the model explores *)

\* Data rows: three complete rows on 2018-12-31 (a Monday of December, a month
\* the month filter does not list), 2019-01-31 (two rows) and 2019-02-01, a
\* row whose Date is no calendar day, a row whose Time is no time of day, a
\* row with an empty Total cell, and a row whose Product line is the text NA,
\* which read_csv takes for a missing value.
FilasCsv ==
    { [Date |-> <<"1", "2", "/", "3", "1", "/", "2", "0", "1", "8">>,
       Time |-> <<"0", ":", "0", "0">>,
       Product_line |-> "Food", Customer_type |-> "Member",
       Total |-> <<"1", "0", "0">>, Rating |-> <<"4">>],
      [Date |-> <<"1", "/", "3", "1", "/", "2", "0", "1", "9">>,
       Time |-> <<"1", "3", ":", "0", "8">>,
       Product_line |-> "Health", Customer_type |-> "Normal",
       Total |-> <<"2", "0", "0">>, Rating |-> <<"9">>],
      [Date |-> <<"1", "/", "3", "1", "/", "2", "0", "1", "9">>,
       Time |-> <<"1", "0", ":", "2", "9">>,
       Product_line |-> "Food", Customer_type |-> "Member",
       Total |-> <<"1", "0", "0">>, Rating |-> <<"6">>],
      [Date |-> <<"0", "2", "/", "0", "1", "/", "2", "0", "1", "9">>,
       Time |-> <<"9", ":", "3", "0">>,
       Product_line |-> "Food", Customer_type |-> "Normal",
       Total |-> <<"3", "0", "0">>, Rating |-> <<"7">>],
      [Date |-> <<"2", "/", "3", "0", "/", "2", "0", "1", "9">>,
       Time |-> <<"1", "0", ":", "2", "9">>,
       Product_line |-> "Health", Customer_type |-> "Member",
       Total |-> <<"2", "0", "0">>, Rating |-> <<"6">>],
      [Date |-> <<"1", "/", "3", "1", "/", "2", "0", "1", "9">>,
       Time |-> <<"2", "5", ":", "0", "0">>,
       Product_line |-> "Food", Customer_type |-> "Normal",
       Total |-> <<"3", "0", "0">>, Rating |-> <<"8">>],
      [Date |-> <<"2", "/", "1", "/", "2", "0", "1", "9">>,
       Time |-> <<"1", "3", ":", "0", "8">>,
       Product_line |-> "Health", Customer_type |-> "Member",
       Total |-> <<>>, Rating |-> <<"5">>],
      [Date |-> <<"0", "2", "/", "0", "1", "/", "2", "0", "1", "9">>,
       Time |-> <<"9", ":", "3", "0">>,
       Product_line |-> "NA", Customer_type |-> "Normal",
       Total |-> <<"3", "0", "0">>, Rating |-> <<"7">>] }

Tablas == UNION {[1..n -> FilasCsv] : n \in 0..MaxRows}

----------------------------------------------------------------------------
(* State *)

VARIABLES
    data_csv,             \* the data rows of data.csv
    pc,                   \* the step of the script run
    df,                   \* the frame cargar_datos returned (cached)
    dtypes,               \* the dtypes of df's numeric columns
    fecha_inicio,         \* st.date_input result, as day numbers
    fecha_fin,
    opciones,             \* the product lines selected
    meses_ordenados,      \* the month choices offered
    meses_seleccionados,  \* the months selected
    df_filtrado,
    descarga,             \* the rows of the text handed to st.download_button
    indicadores,          \* the three st.metric values
    ventas_diarias,
    ventas_dia,
    transacciones,
    opiniones,
    gasto_tipo

vars == <<data_csv, pc, df, dtypes, fecha_inicio, fecha_fin, opciones,
          meses_ordenados, meses_seleccionados, df_filtrado, descarga,
          indicadores, ventas_diarias, ventas_dia, transacciones, opiniones,
          gasto_tipo>>

filtros == <<fecha_inicio, fecha_fin, opciones, meses_ordenados,
             meses_seleccionados, df_filtrado>>

vistas == <<descarga, indicadores, ventas_diarias, ventas_dia, transacciones,
            opiniones, gasto_tipo>>

\* The values of a script run's names before the run assigns them.
SinAsignar ==
    /\ fecha_inicio = 0
    /\ fecha_fin = 0
    /\ opciones = {}
    /\ meses_ordenados = <<>>
    /\ meses_seleccionados = {}
    /\ df_filtrado = <<>>
    /\ descarga = <<>>
    /\ indicadores = <<>>
    /\ ventas_diarias = <<>>
    /\ ventas_dia = <<>>
    /\ transacciones = <<>>
    /\ opiniones = <<>>
    /\ gasto_tipo = <<>>

Init ==
    /\ data_csv \in Tablas
    /\ pc = "cargar"
    /\ df = <<>>
    /\ dtypes = <<>>
    /\ SinAsignar

----------------------------------------------------------------------------
(* The steps of a script run *)

\* Line 29: df = cargar_datos()
CargarDatos ==
    /\ pc = "cargar"
    /\ df' = cargar_datos(data_csv)
    /\ dtypes' = Dtypes(data_csv)
    /\ pc' = "fecha"
    /\ UNCHANGED <<data_csv, filtros, vistas>>

\* The days the user is offered as a bound of the range: the days of the
\* records and the days right after them, within [fecha_min, fecha_max].
DiasElegibles(frame) ==
    LET dias == Range(Col(frame, "Date"))
    IN {z \in dias \cup {d + 1 : d \in dias} :
          MinOf(dias) <= z /\ z <= MaxOf(dias)}

\* Lines 36-40: the date range is chosen and the frame filtered by it.
FiltroFecha ==
    /\ pc = "fecha"
    /\ df # <<>>
    /\ \E inicio, fin \in DiasElegibles(df) :
          /\ inicio <= fin
          /\ fecha_inicio' = inicio
          /\ fecha_fin' = fin
          /\ df_filtrado' = FiltrarFecha(df, inicio, fin)
    /\ pc' = "linea"
    /\ UNCHANGED <<data_csv, df, dtypes, opciones, meses_ordenados,
                   meses_seleccionados, vistas>>

\* Line 38 while the user has picked only the first day of the range:
\* st.date_input returns a 1-tuple and the unpacking raises ValueError.
FechaIncompleta ==
    /\ pc = "fecha"
    /\ df # <<>>
    /\ pc' = "error"
    /\ UNCHANGED <<data_csv, df, dtypes, filtros, vistas>>

\* Lines 36-38 on a frame without rows: fecha_min and fecha_max are NaT, which
\* st.date_input cannot convert to a date (ValueError).
FechaSinDatos ==
    /\ pc = "fecha"
    /\ df = <<>>
    /\ pc' = "error"
    /\ UNCHANGED <<data_csv, df, dtypes, filtros, vistas>>

\* Lines 43-46: the product lines offered are df['Product line'].unique().
FiltroLinea ==
    /\ pc = "linea"
    /\ \E ops \in SUBSET Range(unique(Col(df, "Product_line"))) :
          /\ opciones' = ops
          /\ df_filtrado' = FiltrarLinea(df_filtrado, ops)
    /\ pc' = "mes"
    /\ UNCHANGED <<data_csv, df, dtypes, fecha_inicio, fecha_fin,
                   meses_ordenados, meses_seleccionados, vistas>>

\* Lines 49-52
FiltroMes ==
    /\ pc = "mes"
    /\ meses_ordenados' = MesesOrdenados(df_filtrado)
    /\ \E meses \in SUBSET Range(MesesOrdenados(df_filtrado)) :
          /\ meses_seleccionados' = meses
          /\ df_filtrado' = FiltrarMes(df_filtrado, meses)
    /\ pc' = "descarga"
    /\ UNCHANGED <<data_csv, df, dtypes, fecha_inicio, fecha_fin, opciones,
                   vistas>>

\* Lines 55-60
Descargar ==
    /\ pc = "descarga"
    /\ descarga' = to_csv(df_filtrado, dtypes)
    /\ pc' = "indicadores"
    /\ UNCHANGED <<data_csv, df, dtypes, filtros, indicadores,
                   ventas_diarias, ventas_dia, transacciones, opiniones,
                   gasto_tipo>>

\* Lines 66-77
Indicadores ==
    /\ pc = "indicadores"
    /\ indicadores' = [ventas_totales  |-> Sum(Col(df_filtrado, "Total")),
                       promedio_diario |-> PromedioDiario(df_filtrado),
                       transacciones   |-> Len(df_filtrado)]
    /\ pc' = "ventas"
    /\ UNCHANGED <<data_csv, df, dtypes, filtros, descarga, ventas_diarias,
                   ventas_dia, transacciones, opiniones, gasto_tipo>>

\* Lines 85-96
TabVentas ==
    /\ pc = "ventas"
    /\ ventas_diarias' = VentasDiarias(df_filtrado)
    /\ ventas_dia' = VentasDia(df_filtrado)
    /\ pc' = "transacciones"
    /\ UNCHANGED <<data_csv, df, dtypes, filtros, descarga, indicadores,
                   transacciones, opiniones, gasto_tipo>>

\* Lines 99-109: the transactions per day; the hourly histogram is drawn from
\* df_filtrado itself.
TabTransacciones ==
    /\ pc = "transacciones"
    /\ transacciones' = Transacciones(df_filtrado)
    /\ pc' = "opiniones"
    /\ UNCHANGED <<data_csv, df, dtypes, filtros, descarga, indicadores,
                   ventas_diarias, ventas_dia, opiniones, gasto_tipo>>

\* Lines 112-185
TabOpiniones ==
    /\ pc = "opiniones"
    /\ opiniones' = Opiniones(df_filtrado)
    /\ gasto_tipo' = GastoPorTipo(df_filtrado)
    /\ pc' = "otros"
    /\ UNCHANGED <<data_csv, df, dtypes, filtros, descarga, indicadores,
                   ventas_diarias, ventas_dia, transacciones>>

\* Lines 188-208: the last tab and the closing text read df only; the run ends.
TabOtros ==
    /\ pc = "otros"
    /\ pc' = "fin"
    /\ UNCHANGED <<data_csv, df, dtypes, filtros, vistas>>

\* A widget interaction re-runs the script; cargar_datos is served from the
\* cache (line 18), every other name is assigned anew.
Rerun ==
    /\ pc \in {"fin", "error"}
    /\ pc' = "fecha"
    /\ fecha_inicio' = 0
    /\ fecha_fin' = 0
    /\ opciones' = {}
    /\ meses_ordenados' = <<>>
    /\ meses_seleccionados' = {}
    /\ df_filtrado' = <<>>
    /\ descarga' = <<>>
    /\ indicadores' = <<>>
    /\ ventas_diarias' = <<>>
    /\ ventas_dia' = <<>>
    /\ transacciones' = <<>>
    /\ opiniones' = <<>>
    /\ gasto_tipo' = <<>>
    /\ UNCHANGED <<data_csv, df, dtypes>>

Next ==
    \/ CargarDatos
    \/ FiltroFecha
    \/ FechaIncompleta
    \/ FechaSinDatos
    \/ FiltroLinea
    \/ FiltroMes
    \/ Descargar
    \/ Indicadores
    \/ TabVentas
    \/ TabTransacciones
    \/ TabOpiniones
    \/ TabOtros
    \/ Rerun

Spec == Init /\ [][Next]_vars

----------------------------------------------------------------------------
(* Properties *)

\* The steps of a run at which the three sidebar filters have been applied.
Filtrado == pc \in {"descarga", "indicadores", "ventas", "transacciones",
                    "opiniones", "otros", "fin"}

RECURSIVE IsSubseq(_, _)
IsSubseq(s, t) ==
    IF s = <<>> THEN TRUE
    ELSE IF t = <<>> THEN FALSE
    ELSE IF Head(s) = Head(t) THEN IsSubseq(Tail(s), Tail(t))
    ELSE IsSubseq(s, Tail(t))

\* C1: after every filter step the filtered table is a subsequence of the
\* loaded table: its rows are rows of df, unchanged, none repeated, in the
\* order they have in df.
C1_Subsequence ==
    pc \notin {"cargar", "fecha", "error"} => IsSubseq(df_filtrado, df)

\* C1 witness: the three filters are active and keep the first and the last of
\* three loaded rows, dropping the one between them.
C1_Witness ==
    /\ pc = "descarga"
    /\ opciones # {} /\ meses_seleccionados # {}
    /\ Len(df) = 3
    /\ df_filtrado = <<df[1], df[3]>>

\* Whether a row passes the three predicates of the selection.
Pasa(r) ==
    /\ fecha_inicio <= r.Date /\ r.Date <= fecha_fin
    /\ (opciones = {} \/ r.Product_line \in opciones)
    /\ (meses_seleccionados = {} \/ r.Month \in meses_seleccionados)

\* C2: a row of the loaded table is in the filtered table if and only if it
\* passes the date predicate (both bounds inclusive), the product-line
\* predicate and the month predicate together.
C2_Conjunction ==
    Filtrado =>
        /\ \A i \in 1..Len(df) : (df[i] \in Range(df_filtrado)) <=> Pasa(df[i])
        /\ Range(df_filtrado) \subseteq Range(df)

\* C2 witness: a row dated on the lower bound is kept, a row dated on the
\* upper bound is dropped by month alone and another row by product line
\* alone.
C2_Witness ==
    /\ pc = "descarga"
    /\ fecha_inicio < fecha_fin
    /\ \E r \in Range(df_filtrado) : r.Date = fecha_inicio
    /\ \E r \in Range(df) :
          /\ r.Date = fecha_fin
          /\ r.Product_line \in opciones
          /\ r.Month \notin meses_seleccionados
    /\ \E r \in Range(df) :
          /\ r.Month \in meses_seleccionados
          /\ r.Product_line \notin opciones

\* C3: selecting every product line of the table (every month of the table)
\* gives the same filtered table as selecting none, and with both selections
\* empty only the date range filters.  The last conjunct states the law of
\* lines 51-52 for the full month set of tables holding a month the
\* multiselect does not list.
C3_SelectAll ==
    Filtrado =>
        /\ opciones = Range(Col(df, "Product_line")) =>
              df_filtrado = Aplicar(df, fecha_inicio, fecha_fin, {},
                                    meses_seleccionados)
        /\ meses_seleccionados = Range(Col(df, "Month")) =>
              df_filtrado = Aplicar(df, fecha_inicio, fecha_fin, opciones, {})
        /\ (opciones = {} /\ meses_seleccionados = {}) =>
              df_filtrado = FiltrarFecha(df, fecha_inicio, fecha_fin)
        /\ Aplicar(df, fecha_inicio, fecha_fin, opciones, Range(Col(df, "Month")))
              = Aplicar(df, fecha_inicio, fecha_fin, opciones, {})

\* C3 witness: both product lines and both months of the table are selected.
C3_Witness ==
    /\ pc = "descarga"
    /\ Cardinality(opciones) = 2 /\ opciones = Range(Col(df, "Product_line"))
    /\ Cardinality(meses_seleccionados) = 2
    /\ meses_seleccionados = Range(Col(df, "Month"))
    /\ Len(df_filtrado) >= 2

\* The columns read from the file (the index and the derived columns apart).
Leidas == {"Date", "Time", "Product_line", "Customer_type", "Total", "Rating"}

\* C4: re-loading the exported text with the rules of cargar_datos gives a
\* table with the row count and the values of the exported one.
C4_RoundTrip ==
    pc \in {"indicadores", "ventas", "transacciones", "opiniones", "otros", "fin"} =>
        LET otra == cargar_datos(descarga)
        IN /\ Len(otra) = Len(df_filtrado)
           /\ \A i \in 1..Len(otra) : \A c \in Leidas :
                 otra[i][c] = df_filtrado[i][c]

\* Whether a data row of the file is complete (no cell is empty or a text of
\* na_values) and well formed.
FilaValida(r) ==
    /\ ParseDate(r.Date) # NaT
    /\ ParseTime(r.Time) # NaT
    /\ r.Product_line \notin NaValues /\ r.Customer_type \notin NaValues
    /\ r.Total \notin NaCells /\ r.Rating \notin NaCells

\* C5: loading ends for every file; the loaded table holds exactly the rows of
\* the file that are complete and whose Date and Time match their formats, in
\* file order, and none of its cells is missing.
C5_Load ==
    pc # "cargar" =>
        /\ \A i \in 1..Len(data_csv) :
              FilaValida(data_csv[i]) <=> (i - 1) \in Range(Col(df, "idx"))
        /\ \A i \in 1..Len(df) :
              /\ i > 1 => df[i - 1].idx < df[i].idx
              /\ df[i].Date = ParseDate(data_csv[df[i].idx + 1].Date)[1]
              /\ df[i].Time \in 0..1439
              /\ df[i].Hour \in 0..23
              /\ df[i].Day \in Range(WeekOrder)
              /\ df[i].Month \in Range(MonthNames)
              /\ df[i].Total = NumVal(data_csv[df[i].idx + 1].Total)

\* C5 witness: of three rows, one with a malformed Date and one with a
\* malformed Time are excluded and the third is kept.
C5_Witness ==
    /\ pc = "fecha"
    /\ Len(data_csv) = 3 /\ Len(df) = 1
    /\ \E i \in 1..3 : ParseDate(data_csv[i].Date) = NaT
    /\ \E i \in 1..3 : ParseTime(data_csv[i].Time) = NaT

\* C6: with the date bounds at the table's minimum and maximum date and no
\* product line and no month selected, the filtered table is the loaded table,
\* the total-sales metric is the sum of Total over the loaded table and the
\* transaction count is its row count.
C6_Defaults ==
    (/\ pc \in {"ventas", "transacciones", "opiniones", "otros", "fin"}
     /\ fecha_inicio = MinOf(Range(Col(df, "Date")))
     /\ fecha_fin = MaxOf(Range(Col(df, "Date")))
     /\ opciones = {} /\ meses_seleccionados = {}) =>
        /\ df_filtrado = df
        /\ indicadores.ventas_totales = Sum(Col(df, "Total"))
        /\ indicadores.transacciones = Len(df)

\* C6 witness: the default selection over three rows on three dates.
C6_Witness ==
    /\ pc = "ventas"
    /\ Len(df) = 3
    /\ fecha_inicio = MinOf(Range(Col(df, "Date")))
    /\ fecha_fin = MaxOf(Range(Col(df, "Date")))
    /\ fecha_inicio < fecha_fin
    /\ opciones = {} /\ meses_seleccionados = {}
    /\ indicadores.ventas_totales = 600

\* The positions of the filtered rows of a weekday.
DelDia(d) == {j \in 1..Len(df_filtrado) : df_filtrado[j].Day = d}

RECURSIVE SumaTotal(_)
SumaTotal(J) == IF J = {} THEN 0
                ELSE LET j == CHOOSE x \in J : TRUE
                     IN df_filtrado[j].Total + SumaTotal(J \ {j})

\* C7: the weekday means have exactly seven entries, Monday to Sunday; a
\* weekday with records carries the mean of their Total, a weekday without
\* records carries no value.
C7_WeekdayMeans ==
    pc \in {"transacciones", "opiniones", "otros", "fin"} =>
        /\ Len(ventas_dia) = 7
        /\ \A i \in 1..7 :
              /\ ventas_dia[i].Day = WeekOrder[i]
              /\ DelDia(WeekOrder[i]) = {} => ventas_dia[i].Total = NaN
              /\ DelDia(WeekOrder[i]) # {} =>
                    /\ ventas_dia[i].Total # NaN
                    /\ ventas_dia[i].Total[1] * Cardinality(DelDia(WeekOrder[i]))
                         = ventas_dia[i].Total[2] * SumaTotal(DelDia(WeekOrder[i]))

\* C7 witness: Thursday has two records of different Total (mean 150), Monday
\* one, and the other five weekdays none.
C7_Witness ==
    /\ pc = "transacciones"
    /\ ventas_dia[4].Total = <<150, 1>>
    /\ ventas_dia[1].Total # NaN
    /\ \A i \in {2, 3, 5, 6, 7} : ventas_dia[i].Total = NaN

\* The positions of the filtered rows of a date.
DeFecha(z) == {j \in 1..Len(df_filtrado) : df_filtrado[j].Date = z}

\* C8: daily_totals has one entry per distinct date of the filtered table, in
\* ascending date order, carrying the sum of Total over the date's records;
\* the average-daily metric is the sum of these values divided by the number
\* of distinct dates.
C8_DailyTotals ==
    pc \in {"transacciones", "opiniones", "otros", "fin"} =>
        LET fechas == Range(Col(df_filtrado, "Date"))
        IN /\ Len(ventas_diarias) = Cardinality(fechas)
           /\ \A i \in 1..Len(ventas_diarias) :
                 /\ ventas_diarias[i].Date \in fechas
                 /\ i > 1 => ventas_diarias[i - 1].Date < ventas_diarias[i].Date
                 /\ ventas_diarias[i].Total = SumaTotal(DeFecha(ventas_diarias[i].Date))
           /\ fechas # {} =>
                 /\ indicadores.promedio_diario # NaN
                 /\ indicadores.promedio_diario[1] * Cardinality(fechas)
                      = indicadores.promedio_diario[2]
                          * Sum(Col(ventas_diarias, "Total"))

\* C8 witness: three dates with totals 100, 200 and 300 give these three
\* entries in date order and an average of 200.
C8_Witness ==
    /\ pc = "transacciones"
    /\ Col(ventas_diarias, "Total") = <<100, 200, 300>>
    /\ ventas_diarias[1].Date < ventas_diarias[2].Date
    /\ ventas_diarias[2].Date < ventas_diarias[3].Date
    /\ indicadores.promedio_diario = <<200, 1>>

\* C9: when the selection leaves no row, no step fails: the total is 0, the
\* transaction count 0, daily_totals empty, the daily average and the rating
\* statistics have no value, the weekday means keep their seven entries, and
\* the run is not in the error state.
C9_EmptyResult ==
    (Filtrado /\ df_filtrado = <<>>) =>
        /\ pc # "error"
        /\ pc \in {"ventas", "transacciones", "opiniones", "otros", "fin"} =>
              indicadores = [ventas_totales |-> 0, promedio_diario |-> NaN,
                             transacciones |-> 0]
        /\ pc \in {"transacciones", "opiniones", "otros", "fin"} =>
              /\ ventas_diarias = <<>>
              /\ Len(ventas_dia) = 7
              /\ \A i \in 1..7 : ventas_dia[i].Total = NaN
        /\ pc \in {"opiniones", "otros", "fin"} => transacciones = <<>>
        /\ pc \in {"otros", "fin"} =>
              /\ opiniones.mean = NaN /\ opiniones.median = NaN
              /\ opiniones.q1 = NaN /\ opiniones.q3 = NaN
              /\ opiniones.max_count = 0
              /\ gasto_tipo = <<>>

\* C9 witness: a product line without records in the chosen date range is
\* selected, and the run reaches its end.
C9_Witness ==
    /\ pc = "fin"
    /\ df # <<>>
    /\ opciones # {}
    /\ FiltrarFecha(df, fecha_inicio, fecha_fin) # <<>>
    /\ df_filtrado = <<>>

\* C10: every month offered is the Month of a record of the table filtered by
\* date range and product line, the months selected are among those offered,
\* and a non-empty month selection leaves a non-empty filtered table.
C10_MonthChoices ==
    Filtrado =>
        /\ Range(meses_ordenados) \subseteq
              Range(Col(FiltrarLinea(FiltrarFecha(df, fecha_inicio, fecha_fin),
                                     opciones), "Month"))
        /\ meses_seleccionados \subseteq Range(meses_ordenados)
        /\ meses_seleccionados # {} => df_filtrado # <<>>

\* C10 witness: the table has records of January and of February, the date
\* range leaves only one of the two months to offer, and it is selected.
C10_Witness ==
    /\ pc = "descarga"
    /\ {"January", "February"} \subseteq Range(Col(df, "Month"))
    /\ Len(meses_ordenados) = 1
    /\ meses_seleccionados = Range(meses_ordenados)

====
